---- MODULE Spec2Model ----
(***************************************************************************)
(* Job search subsystem of tw-frontend-next: the useJobSearch orchestrator *)
(* (React Query cache + apiError state), the useJobFilters filter state,   *)
(* the useJobPagination page handler and the JobLayout handlers that wire  *)
(* them to the URL.                                                        *)
(*                                                                         *)
(* Conventions.  A JavaScript optional value is a set with at most one     *)
(* element: {} is undefined/null, {v} is the value v.  A text (query,      *)
(* raw URL parameter) is a sequence of tokens, a token being a blank " ",  *)
(* a comma ",", a decimal digit or a word.                                 *)
(***************************************************************************)
EXTENDS Integers, Sequences, FiniteSets

VARIABLES
    mounted,        \* JobLayout has been mounted
    url,            \* the browser's query string (useSearchParams)
    filters,        \* useJobFilters: the FilterState
    searchQuery,    \* JobLayout: the controlled search input
    searchParams,   \* useJobSearch: SearchParameters | null (latest set state)
    apiError,       \* useJobSearch: SupabaseAppError | null (latest set state)
    rendered,       \* what the last committed render captured (closures, observer)
    needsRender,    \* a state update is waiting for the next render
    cache,          \* React Query cache: query key -> query state
    inflight,       \* calls of the query executor that have not completed
    prevData,       \* data of the last observed query with defined data
    calls,          \* history: query key -> number of invocations of the executor
    clock,          \* time, in staleness horizons
    searchReturn,   \* history: what the last search() call returned
    streak,         \* history: the search() calls made since the last render
    navigated,      \* history: the URL was navigated and no search was called since
    events,         \* history: number of user-level events so far
    companies,      \* database: companies table, name -> is_active
    jobsTable,      \* database: jobs table, id -> row
    result,         \* database: what the last call of a search procedure returned
    writes,         \* history: number of statements that wrote to the database
    fn,             \* the last application of a pure function to drawn inputs
    options,        \* useCompanyOptions: the shown list and the loads in flight
    selection       \* useJobPagination: the page's jobs and the stored selection

uiVars == <<mounted, url, filters, searchQuery, searchParams, apiError, rendered,
            needsRender, cache, inflight, prevData, calls, clock,
            searchReturn, streak, navigated, events>>

serverVars == <<companies, jobsTable, result, writes>>

panelVars == <<options, selection>>

vars == <<uiVars, serverVars, fn, panelVars>>

(***************************************************************************)
(* Bounds                                                                  *)
(***************************************************************************)
MaxEvents == 2
MaxClock == 1
MaxPage == 2
MaxJobs == 2
MaxWrites == 3
MaxRows == 2
MaxLoads == 3

(***************************************************************************)
(* Program constants                                                       *)
(***************************************************************************)
PAGE_SIZE == 25
DEFAULT_PAGE == 1
DEFAULT_PAGE_SIZE == 20
STALE_TIME == 1
DEFAULT_SEARCH_QUERY == <<"engineer">>

(***************************************************************************)
(* Optional values and texts                                               *)
(***************************************************************************)
None == {}
Some(v) == {v}
The(o) == CHOOSE v \in o : TRUE
OrElse(o, d) == IF o = None THEN d ELSE The(o)

RECURSIVE TrimStart(_)
TrimStart(s) ==
    IF s # <<>> /\ Head(s) = " " THEN TrimStart(Tail(s)) ELSE s

RECURSIVE TrimEnd(_)
TrimEnd(s) ==
    IF s # <<>> /\ s[Len(s)] = " " THEN TrimEnd(SubSeq(s, 1, Len(s) - 1)) ELSE s

Trim(s) == TrimEnd(TrimStart(s))

\* JavaScript truthiness of an optional string: defined and not ""
Truthy(o) == o # None /\ The(o) # <<>>

\* value.split(',')
RECURSIVE Split(_)
Split(s) ==
    IF \A i \in 1..Len(s) : s[i] # ","
    THEN <<s>>
    ELSE LET i == CHOOSE j \in 1..Len(s) :
                      s[j] = "," /\ \A m \in 1..(j - 1) : s[m] # ","
         IN <<SubSeq(s, 1, i - 1)>> \o Split(SubSeq(s, i + 1, Len(s)))

\* values.join(',')
RECURSIVE Join(_)
Join(a) ==
    IF a = <<>> THEN <<>>
    ELSE IF Len(a) = 1 THEN a[1]
    ELSE a[1] \o <<",">> \o Join(Tail(a))

Digits == <<"0", "1", "2", "3", "4", "5", "6", "7", "8", "9">>
IsDigit(t) == \E d \in 1..10 : Digits[d] = t
DigitVal(t) == (CHOOSE d \in 1..10 : Digits[d] = t) - 1

\* parseInt(s, 10) on a text without sign: the leading digits, NaN ({}) if none
RECURSIVE ParseDigits(_, _)
ParseDigits(s, acc) ==
    IF s # <<>> /\ IsDigit(Head(s))
    THEN ParseDigits(Tail(s), 10 * acc + DigitVal(Head(s)))
    ELSE acc

ParseInt(s) ==
    LET t == TrimStart(s)
    IN IF t # <<>> /\ IsDigit(Head(t)) THEN Some(ParseDigits(t, 0))
       ELSE IF Len(t) > 1 /\ t[1] = "-" /\ IsDigit(t[2])
            THEN Some(0 - ParseDigits(Tail(t), 0))
       ELSE None

\* n.toString() for 0 <= n < 100
PageToString(n) ==
    IF n < 10 THEN <<Digits[n + 1]>>
    ELSE <<Digits[(n \div 10) + 1], Digits[(n % 10) + 1]>>

(***************************************************************************)
(* Filter state and URL codec (types/filters.ts)                           *)
(***************************************************************************)
ENGLISH == <<"english">>
SPANISH == <<"spanish">>
ANY == <<"any">>
WEEK == <<"week">>
SENIOR == <<"senior">>

MultiSelectKeys == {"experienceLevel"}
SingleSelectKeys == {"language", "datePreset"}

EmptyFilters ==
    [query |-> None, experienceLevel |-> None, language |-> None,
     datePreset |-> None]

EmptyUrl == [q |-> None, exp |-> None, lang |-> None, date |-> None, p |-> None]

filtersToURLParams(f) ==
    [q    |-> IF Truthy(f.query) THEN f.query ELSE None,
     exp  |-> IF f.experienceLevel # None /\ Len(The(f.experienceLevel)) > 0
              THEN Some(Join(The(f.experienceLevel))) ELSE None,
     lang |-> IF Truthy(f.language) THEN f.language ELSE None,
     date |-> IF Truthy(f.datePreset) /\ The(f.datePreset) # ANY
              THEN f.datePreset ELSE None,
     p    |-> None]

urlParamsToFilters(u) ==
    [query           |-> IF Truthy(u.q) THEN u.q ELSE None,
     experienceLevel |-> IF Truthy(u.exp) THEN Some(Split(The(u.exp))) ELSE None,
     language        |-> IF Truthy(u.lang) THEN u.lang ELSE None,
     datePreset      |-> IF Truthy(u.date) THEN u.date ELSE None]

\* useJobFilters: the state built from the URL, single-selects defaulted
FiltersFromUrl(u) ==
    LET urlFilters == urlParamsToFilters(u)
    IN [urlFilters EXCEPT !.language = Some(OrElse(urlFilters.language, ENGLISH)),
                          !.datePreset = Some(OrElse(urlFilters.datePreset, ANY))]

toggleFilterValue(currentValues, value) ==
    LET values == OrElse(currentValues, <<>>)
    IN IF \A i \in 1..Len(values) : values[i] # value
       THEN Append(values, value)
       ELSE LET index == CHOOSE i \in 1..Len(values) :
                             values[i] = value /\ \A j \in 1..(i - 1) : values[j] # value
            IN SubSeq(values, 1, index - 1) \o SubSeq(values, index + 1, Len(values))

\* the state toggleFilter sets: an emptied filter is deleted
ToggledFilters(f, key, value) ==
    LET newValues == toggleFilterValue(f[key], value)
    IN [f EXCEPT ![key] = IF Len(newValues) > 0 THEN Some(newValues) ELSE None]

\* urlParamsToPage
urlParamsToPage(u) ==
    IF ~Truthy(u.p) THEN DEFAULT_PAGE
    ELSE LET page == ParseInt(The(u.p))
         IN IF page = None \/ The(page) < 1 THEN DEFAULT_PAGE ELSE The(page)

\* paginationToURLParams(page, existingParams)
paginationToURLParams(page, existingParams) ==
    [existingParams EXCEPT !.p = IF page = DEFAULT_PAGE THEN None
                                 ELSE Some(PageToString(page))]

\* JobLayout: searchParams.get('q') ?? DEFAULT_SEARCH_QUERY
appliedSearchQuery(u) == OrElse(u.q, DEFAULT_SEARCH_QUERY)

\* useJobPagination: parseInt(searchParams.get('p') ?? '', 10) || DEFAULT_PAGE
currentPage(u) ==
    LET n == ParseInt(OrElse(u.p, <<>>))
    IN IF n = None \/ The(n) = 0 THEN DEFAULT_PAGE ELSE The(n)

\* JobLayout.buildFilters
buildFilters(f, u) == [f EXCEPT !.query = Some(appliedSearchQuery(u))]

(***************************************************************************)
(* Query keys and result pages (useJobSearch.ts, api/transformer.ts)       *)
(***************************************************************************)
EmptyKey ==
    [kind |-> "empty", query |-> None, experienceLevel |-> None,
     language |-> None, datePreset |-> None, page |-> None, pageSize |-> None]

\* createQueryKey: an undefined field is kept as undefined (JSON null)
createQueryKey(params) ==
    IF params = None THEN EmptyKey
    ELSE LET sp == The(params)
         IN [kind            |-> "search",
             query           |-> sp.filters.query,
             experienceLevel |-> sp.filters.experienceLevel,
             language        |-> sp.filters.language,
             datePreset      |-> sp.filters.datePreset,
             page            |-> Some(sp.pagination.page),
             pageSize        |-> Some(sp.pagination.pageSize)]

EmptyState == [jobs |-> 0, pagination |-> None, from |-> EmptyKey, failed |-> FALSE]

\* variant: the empty page claims that more rows follow
createEmptySearchResponseMore(page, pageSize) ==
    [jobs |-> <<>>,
     pagination |-> [total |-> 0, limit |-> pageSize,
                     offset |-> (page - 1) * pageSize, hasMore |-> TRUE]]

\* createEmptySearchResponse(page, pageSize)
createEmptySearchResponse(page, pageSize) ==
    [jobs |-> <<>>,
     pagination |-> [total |-> 0, limit |-> pageSize,
                     offset |-> (page - 1) * pageSize, hasMore |-> FALSE]]

\* transformSearchResponse({jobs, totalCount, page, pageSize}); transformJobs
\* maps the rows one to one
transformSearchResponse(rows, totalCount, page, pageSize) ==
    LET offset == (page - 1) * pageSize
        hasMore == offset + Len(rows) < totalCount
    IN [jobs |-> rows,
        pagination |-> [total |-> totalCount, limit |-> pageSize,
                        offset |-> offset, hasMore |-> hasMore]]

\* number of jobs matching any criteria on the server the pages are shown from
TotalMatches == 30

Min(a, b) == IF a < b THEN a ELSE b
Max(a, b) == IF a > b THEN a ELSE b

\* the executor failed for the key: the empty page, paired with the error
SearchFailed(key) ==
    LET page == createEmptySearchResponse(The(key.page), The(key.pageSize))
    IN [jobs |-> Len(page.jobs), pagination |-> Some(page.pagination),
        from |-> key, failed |-> TRUE]

\* the executor succeeded for the key: the repository takes totalCount from the
\* first row returned, 0 when the page has no row
SearchSucceeded(key) ==
    LET offset == (The(key.page) - 1) * The(key.pageSize)
        n == Max(0, Min(The(key.pageSize), TotalMatches - offset))
        rows == [i \in 1..n |-> offset + i]
        totalCount == IF n > 0 THEN TotalMatches ELSE 0
        page == transformSearchResponse(rows, totalCount, The(key.page),
                                        The(key.pageSize))
    IN [jobs |-> Len(page.jobs), pagination |-> Some(page.pagination),
        from |-> key, failed |-> FALSE]

\* the error a failed call of the executor reports
ErrorOf(key) == [type |-> "QUERY_ERROR", from |-> key]

(***************************************************************************)
(* React Query cache as used by useJobSearch                               *)
(***************************************************************************)
NoCache == [k \in {} |-> 0]

HasData(c, k) == k \in DOMAIN c /\ c[k].data # None
IsFresh(c, k) == HasData(c, k) /\ clock - c[k].updatedAt < STALE_TIME
IsFetching(c, k) == k \in DOMAIN c /\ c[k].fetching

Put(c, k, e) == [x \in DOMAIN c \cup {k} |-> IF x = k THEN e ELSE c[x]]

\* number of invocations recorded for key k
Count(c, k) == IF k \in DOMAIN c THEN c[k] ELSE 0

QueryClient == [cache |-> cache, inflight |-> inflight, calls |-> calls]

\* one invocation of the query executor (searchJobsApi) for the query of key k
Invoke(q, k) ==
    [cache    |-> Put(q.cache, k,
                      [data      |-> IF k \in DOMAIN q.cache THEN q.cache[k].data ELSE None,
                       updatedAt |-> IF k \in DOMAIN q.cache THEN q.cache[k].updatedAt ELSE 0,
                       fetching  |-> TRUE]),
     inflight |-> q.inflight \cup {[key |-> k, attached |-> TRUE]},
     calls    |-> Put(q.calls, k, Count(q.calls, k) + 1)]

\* variant: a fetch in flight is not joined
fetchQueryNoDedup(q, k) ==
    IF IsFresh(q.cache, k) THEN q ELSE Invoke(q, k)

\* variant: cached data is never reused
fetchQueryNoCache(q, k) ==
    IF IsFetching(q.cache, k) THEN q ELSE Invoke(q, k)

\* queryClient.fetchQuery({queryKey, queryFn, staleTime}): fresh data is
\* returned, a fetch in flight is joined, otherwise the queryFn runs
fetchQuery(q, k) ==
    IF IsFresh(q.cache, k) THEN q
    ELSE IF IsFetching(q.cache, k) THEN q
    ELSE Invoke(q, k)

\* useQuery's enabled: !!searchParams?.filters.query?.trim()
Enabled(params) ==
    /\ params # None
    /\ The(params).filters.query # None
    /\ Trim(The(The(params).filters.query)) # <<>>

\* the useQuery observer on a render: it fetches when the key is new (or the
\* query has just been enabled), and the query is stale and not fetching
ObserverUpdate(q, prevParams, params) ==
    LET k == createQueryKey(params)
    IN IF /\ Enabled(params)
          /\ (k # createQueryKey(prevParams) \/ ~Enabled(prevParams))
          /\ ~IsFresh(q.cache, k)
          /\ ~IsFetching(q.cache, k)
       THEN Invoke(q, k)
       ELSE q

\* variant: the data of whichever query was written last is shown
QueryDataLastWrite(params, c, pd) ==
    LET withData == {k \in DOMAIN c : c[k].data # None}
    IN IF withData = {} THEN pd.data
       ELSE c[CHOOSE k \in withData :
                  \A j \in withData : c[j].updatedAt <= c[k].updatedAt].data

\* useQuery's data: the observed query's data, else placeholderData
QueryData(params, c, pd) ==
    LET k == createQueryKey(params)
    IN IF HasData(c, k) THEN c[k].data ELSE pd.data

(***************************************************************************)
(* useJobSearch                                                            *)
(***************************************************************************)
data == QueryData(rendered.params, cache, prevData)
jobs == IF data = None THEN 0 ELSE The(data).jobs
pagination == IF data = None THEN None ELSE The(data).pagination
isError == apiError # None
error == apiError
isFetching == IsFetching(cache, createQueryKey(rendered.params))

Returned(kind, value, key) == [kind |-> kind, value |-> value, key |-> key]

NoStreak == [key |-> EmptyKey, n |-> 0, base |-> 0, covered |-> FALSE]

\* variant: the guard forgets to trim
EmptyQueryNoTrim(f) == f.query = None \/ The(f.query) = <<>>

\* the guard of search(): !filters.query?.trim()
EmptyQuery(f) == f.query = None \/ Trim(The(f.query)) = <<>>

\* the criteria key search(f, pg) requests
RequestKey(f, pg) ==
    createQueryKey(Some([filters |-> [f EXCEPT !.query = Some(Trim(The(f.query)))],
                         pagination |-> [page |-> OrElse(pg.page, 1),
                                         pageSize |-> OrElse(pg.pageSize, DEFAULT_PAGE_SIZE)]]))

\* history: consecutive search() calls for one key between two renders
NextStreak(f, pg) ==
    IF EmptyQuery(f) THEN NoStreak
    ELSE LET k == RequestKey(f, pg)
         IN IF streak.n > 0 /\ streak.key = k
            THEN [streak EXCEPT !.n = streak.n + 1]
            ELSE [key |-> k, n |-> 1, base |-> Count(calls, k),
                  covered |-> \/ IsFresh(cache, k)
                              \/ IsFetching(cache, k)
                              \/ k = createQueryKey(rendered.params)]

\* search(filters, pagination), up to its first await
search(f, pg) ==
    /\ streak' = NextStreak(f, pg)
    /\ IF EmptyQuery(f)
       THEN /\ searchParams' = None
            /\ apiError' = None
            /\ searchReturn' = Returned("value", Some(EmptyState), EmptyKey)
            /\ UNCHANGED <<cache, inflight, calls>>
       ELSE LET normalizedFilters == [f EXCEPT !.query = Some(Trim(The(f.query)))]
                normalizedPagination ==
                    [page |-> OrElse(pg.page, 1),
                     pageSize |-> OrElse(pg.pageSize, DEFAULT_PAGE_SIZE)]
                newParams == Some([filters |-> normalizedFilters,
                                   pagination |-> normalizedPagination])
                newQueryKey == createQueryKey(newParams)
                currentQueryKey == createQueryKey(rendered.params)
                q == fetchQuery(QueryClient, newQueryKey)
            IN IF newQueryKey = currentQueryKey
               THEN /\ searchReturn' =
                           Returned("value", Some(OrElse(rendered.data, EmptyState)), newQueryKey)
                    /\ UNCHANGED <<searchParams, apiError, cache, inflight, calls>>
               ELSE /\ searchParams' = newParams
                    /\ cache' = q.cache
                    /\ inflight' = q.inflight
                    /\ calls' = q.calls
                    /\ searchReturn' =
                           IF IsFresh(cache, newQueryKey)
                           THEN Returned("value", cache[newQueryKey].data, newQueryKey)
                           ELSE Returned("promise", None, newQueryKey)
                    /\ UNCHANGED apiError

(***************************************************************************)
(* Inputs                                                                  *)
(***************************************************************************)
REACT == <<"react">>

\* query strings a visit or a back/forward navigation can arrive with
NavUrls ==
    { EmptyUrl,
      [EmptyUrl EXCEPT !.q = Some(REACT), !.exp = Some(SENIOR), !.p = Some(<<"2">>)],
      [EmptyUrl EXCEPT !.q = Some(<<" ">>)] }

\* texts typed into the search input
InputTexts == { <<" ", "react">> }

\* arguments of direct calls of the hook's search()
HookFilters ==
    { [EmptyFilters EXCEPT !.query = Some(<<"react", " ">>), !.language = Some(ENGLISH),
                           !.datePreset = Some(ANY)],
      [EmptyFilters EXCEPT !.query = Some(DEFAULT_SEARCH_QUERY),
                           !.language = Some(ENGLISH), !.datePreset = Some(ANY)] }
HookPaginations ==
    { [page |-> None, pageSize |-> None],
      [page |-> Some(DEFAULT_PAGE), pageSize |-> Some(PAGE_SIZE)] }

\* the calls made: new criteria with default pagination, and the criteria of
\* the default landing page as the layout submits them
HookCalls ==
    {c \in HookFilters \X HookPaginations :
        (c[1].query = Some(DEFAULT_SEARCH_QUERY)) = (c[2].pageSize # None)}

Pages == 1..MaxPage
ToggleValues == {SENIOR}
SingleValues == [language |-> {SPANISH}, datePreset |-> {WEEK}]
SetKeys == {"datePreset"}
ClearKeys == {"language"}

(***************************************************************************)
(* Database: the jobs and companies tables, the search_vector trigger and  *)
(* the procedures search_jobs and get_companies_for_search.  Times are in  *)
(* days.  A tsvector is a set of lexemes per weight, a lexeme being a word *)
(* as the analyzer (text search configuration) of one language yields it.  *)
(***************************************************************************)
ENTRY == <<"entry-level">>
ACME == <<"acme">>
ZETA == <<"zeta">>
SQL == <<"sql">>
JAVA == <<"java">>

\* company names in ascending (collation) order
CompanyNames == <<ACME, ZETA>>

\* new Date() at the time of the requests
Now == 100

subDays(date, n) == date - n

datePresetToRange(preset) ==
    IF preset = <<"24hours">> THEN [dateFrom |-> subDays(Now, 1), dateTo |-> Now]
    ELSE IF preset = WEEK THEN [dateFrom |-> subDays(Now, 7), dateTo |-> Now]
    ELSE IF preset = <<"month">> THEN [dateFrom |-> subDays(Now, 30), dateTo |-> Now]
    ELSE [dateFrom |-> subDays(Now, 90), dateTo |-> Now]

\* filters.x?.length ? filters.x : undefined
NonEmptyArray(o) == IF o # None /\ Len(The(o)) > 0 THEN o ELSE None

toSearchJobsRpcParams(f, pg) ==
    LET page == OrElse(pg.page, 1)
        pageSize == OrElse(pg.pageSize, DEFAULT_PAGE_SIZE)
        offset == (page - 1) * pageSize
        dateRange == IF f.datePreset # None
                     THEN Some(datePresetToRange(The(f.datePreset))) ELSE None
    IN [search_query       |-> The(f.query),
        p_limit            |-> Some(pageSize),
        p_offset           |-> Some(offset),
        p_experience_level |-> NonEmptyArray(f.experienceLevel),
        p_company          |-> NonEmptyArray(f.company),
        p_language         |-> f.language,
        p_date_from        |-> {r.dateFrom : r \in dateRange},
        p_date_to          |-> {r.dateTo : r \in dateRange}]

FACET_LIMIT == 100

\* variant: the facet request carries the company filter
toGetCompaniesRpcParamsWithCompany(f) ==
    LET dateRange == IF f.datePreset # None
                     THEN Some(datePresetToRange(The(f.datePreset))) ELSE None
    IN [search_query       |-> The(f.query),
        p_limit            |-> Some(FACET_LIMIT),
        p_experience_level |-> NonEmptyArray(f.experienceLevel),
        p_company          |-> NonEmptyArray(f.company),
        p_language         |-> f.language,
        p_date_from        |-> {r.dateFrom : r \in dateRange},
        p_date_to          |-> {r.dateTo : r \in dateRange}]

toGetCompaniesRpcParams(f) ==
    LET dateRange == IF f.datePreset # None
                     THEN Some(datePresetToRange(The(f.datePreset))) ELSE None
    IN [search_query       |-> The(f.query),
        p_limit            |-> Some(FACET_LIMIT),
        p_experience_level |-> NonEmptyArray(f.experienceLevel),
        p_language         |-> f.language,
        p_date_from        |-> {r.dateFrom : r \in dateRange},
        p_date_to          |-> {r.dateTo : r \in dateRange}]

\* to_tsvector(config, text) and plainto_tsquery(config, text): the words of
\* the text as the analyzer of the configuration yields them
Lexemes(config, text) ==
    {[config |-> config, word |-> text[i]] :
        i \in {n \in DOMAIN text : text[n] \notin {" ", ","}}}

RECURSIVE array_to_string(_)
\* array_to_string(a, ' ')
array_to_string(a) ==
    IF Len(a) = 0 THEN <<>>
    ELSE IF Len(a) = 1 THEN a[1]
    ELSE a[1] \o <<" ">> \o array_to_string(Tail(a))

NullVector == [A |-> {}, B |-> {}, C |-> {}]

\* the weighted document of a row under the analyzer of its language
SearchDocument(row) ==
    [A |-> Lexemes(row.language, row.title),
     B |-> Lexemes(row.language, array_to_string(row.skill_must_have)),
     C |-> Lexemes(row.language, array_to_string(row.skill_nice_have))]

\* update_jobs_search_vector(): the trigger function, NEW -> NEW
update_jobs_search_vector(new) == [new EXCEPT !.search_vector = SearchDocument(new)]

\* BEFORE INSERT OR UPDATE OF title, description, skill_must_have, skill_nice_have
TriggerColumns == {"title", "description", "skill_must_have", "skill_nice_have"}

\* search_vector @@ query: every lexeme of the query is in the document, and a
\* query without lexemes matches nothing
Matches(vector, query) ==
    query # {} /\ query \subseteq (vector.A \cup vector.B \cup vector.C)

\* p IS NULL OR array_length(p, 1) IS NULL OR x = ANY(p)
ArrayFilter(p, x) ==
    p = None \/ Len(The(p)) = 0 \/ \E i \in DOMAIN The(p) : The(p)[i] = x

\* variant: the date range excludes its bounds
CommonWhereExclusiveDates(j, p) ==
    LET p_language == OrElse(p.p_language, ENGLISH)
    IN /\ j.is_active
       /\ Matches(j.search_vector, Lexemes(p_language, p.search_query))
       /\ j.language = p_language
       /\ ArrayFilter(p.p_experience_level, j.experience_level)
       /\ \A d \in p.p_date_from : j.created_at > d
       /\ \A d \in p.p_date_to : j.created_at < d

\* the WHERE clause both procedures share
CommonWhere(j, p) ==
    LET p_language == OrElse(p.p_language, ENGLISH)
    IN /\ j.is_active
       /\ Matches(j.search_vector, Lexemes(p_language, p.search_query))
       /\ j.language = p_language
       /\ ArrayFilter(p.p_experience_level, j.experience_level)
       /\ \A d \in p.p_date_from : j.created_at >= d
       /\ \A d \in p.p_date_to : j.created_at <= d

\* the WHERE clause of search_jobs
SearchWhere(j, p) ==
    CommonWhere(j, p) /\ ArrayFilter(p.p_company, j.company)

\* the WHERE clause of get_companies_for_search
CompaniesWhere(j, p) ==
    CommonWhere(j, p) /\ companies[j.company]

\* the ids of the rows search_jobs selects before LIMIT and OFFSET
Selected(p) == {id \in DOMAIN jobsTable : SearchWhere(jobsTable[id], p)}

\* the orders ORDER BY created_at DESC may return the ids in: rows with equal
\* created_at come in any order, which may differ from one call to the next
Orderings(ids) ==
    {o \in [1..Cardinality(ids) -> ids] :
        /\ \A i, j \in DOMAIN o : i < j => o[i] # o[j]
        /\ \A i, j \in DOMAIN o :
              i < j => jobsTable[o[i]].created_at >= jobsTable[o[j]].created_at}

\* search_jobs: the rows of one call, given the order the call sorted them in
search_jobs(p, order) ==
    LET offset == OrElse(p.p_offset, 0)
        limit == OrElse(p.p_limit, DEFAULT_PAGE_SIZE)
        last == Min(Len(order), offset + limit)
    IN [i \in 1..Max(0, last - offset) |->
           [id |-> order[offset + i],
            company_name |-> jobsTable[order[offset + i]].company,
            total_count |-> Len(order)]]

\* jobRepository.searchJobs: totalCount is read from the first row
RepositoryTotalCount(rows) == IF Len(rows) > 0 THEN rows[1].total_count ELSE 0

\* jobService.searchJobs, the path without error
searchJobs(f, pg, order) ==
    LET page == OrElse(pg.page, 1)
        pageSize == OrElse(pg.pageSize, DEFAULT_PAGE_SIZE)
        rows == search_jobs(toSearchJobsRpcParams(f, [page |-> Some(page),
                                                      pageSize |-> Some(pageSize)]),
                            order)
    IN transformSearchResponse(rows, RepositoryTotalCount(rows), page, pageSize)

\* the number of selected jobs of each company
JobCount(c, p) ==
    Cardinality({id \in DOMAIN jobsTable :
                    CompaniesWhere(jobsTable[id], p) /\ jobsTable[id].company = c})

\* name ASC
NameBefore(a, b) ==
    \E i, j \in DOMAIN CompanyNames : i < j /\ CompanyNames[i] = a /\ CompanyNames[j] = b

\* get_companies_for_search: GROUP BY c.name ORDER BY job_count DESC, c.name ASC
\* LIMIT p_limit
get_companies_for_search(p) ==
    LET groups == {CompanyNames[i] : i \in {n \in DOMAIN CompanyNames :
                                                JobCount(CompanyNames[n], p) > 0}}
        sorted == CHOOSE o \in [1..Cardinality(groups) -> groups] :
                     \A i, j \in DOMAIN o :
                        i < j => \/ JobCount(o[i], p) > JobCount(o[j], p)
                                 \/ /\ JobCount(o[i], p) = JobCount(o[j], p)
                                    /\ NameBefore(o[i], o[j])
        limit == OrElse(p.p_limit, FACET_LIMIT)
    IN [i \in 1..Min(Len(sorted), limit) |->
           [company_name |-> sorted[i], job_count |-> JobCount(sorted[i], p)]]

\* rows a writer inserts
BaseJob ==
    [company |-> ACME, title |-> REACT, skill_must_have |-> <<SQL>>,
     skill_nice_have |-> <<>>, language |-> ENGLISH, experience_level |-> SENIOR,
     is_active |-> TRUE, created_at |-> subDays(Now, 7), search_vector |-> NullVector]

NewJobs ==
    { BaseJob,
      [BaseJob EXCEPT !.company = ZETA, !.experience_level = ENTRY,
                      !.created_at = subDays(Now, 8)] }

\* column updates a writer makes
JobUpdates == { <<"language", SPANISH>>, <<"title", JAVA>>, <<"is_active", FALSE>> }

\* criteria the search procedures are called with
BaseCriteria ==
    [query |-> Some(REACT), experienceLevel |-> None, company |-> None,
     language |-> None, datePreset |-> None]

DbFilters ==
    { BaseCriteria,
      [BaseCriteria EXCEPT !.experienceLevel = Some(<<>>)],
      [BaseCriteria EXCEPT !.experienceLevel = Some(<<SENIOR>>)],
      [BaseCriteria EXCEPT !.company = Some(<<ZETA>>)],
      [BaseCriteria EXCEPT !.language = Some(SPANISH)],
      [BaseCriteria EXCEPT !.datePreset = Some(WEEK)] }

DbPaginations ==
    {[page |-> Some(n), pageSize |-> Some(1)] : n \in Pages}
        \cup {[page |-> None, pageSize |-> None]}

\* limits the facet procedure is called with: the one toGetCompaniesRpcParams
\* sets, the procedure's default, and a small one
FacetLimits == {Some(FACET_LIMIT), None, Some(1)}

NoRows == [k \in {} |-> 0]
NoResult == [op |-> "none"]

(***************************************************************************)
(* Initial state: the page is about to be mounted on some URL              *)
(***************************************************************************)
NoReturn == Returned("none", None, EmptyKey)
NoFn == [op |-> "none"]

\* the empty list of company options
NoCompanies == [kind |-> "none", params |-> None]

\* useCompanyOptions before its first effect: useState([]), false, null
NoOptions ==
    [mounted |-> FALSE, companies |-> [by |-> 0, list |-> NoCompanies],
     isLoading |-> FALSE, error |-> None, requests |-> <<>>, outcome |-> <<>>]

\* useJobPagination before the first result: no jobs, useState(null)
NoSelection == [apiJobs |-> <<>>, selectedJobId |-> None]

Init ==
    /\ mounted = FALSE
    /\ url \in NavUrls
    /\ filters = EmptyFilters
    /\ searchQuery = <<>>
    /\ searchParams = None
    /\ apiError = None
    /\ rendered = [params |-> None, url |-> url, data |-> None]
    /\ needsRender = FALSE
    /\ cache = NoCache
    /\ inflight = {}
    /\ prevData = [data |-> None, live |-> FALSE]
    /\ calls = NoCache
    /\ clock = 0
    /\ searchReturn = NoReturn
    /\ streak = NoStreak
    /\ navigated = FALSE
    /\ events = 0
    /\ companies = [c \in {ACME, ZETA} |-> TRUE]
    /\ jobsTable = NoRows
    /\ result = NoResult
    /\ writes = 0
    /\ fn = NoFn
    /\ options = NoOptions
    /\ selection = NoSelection

\* a user-level event; those that call search() end a pending navigation
Event(name) ==
    /\ events < MaxEvents
    /\ events' = events + 1
    /\ navigated' = IF name = "navigate" THEN TRUE
                    ELSE IF name \in {"submit", "page", "search", "clear"} THEN FALSE
                    ELSE navigated

(***************************************************************************)
(* JobLayout                                                               *)
(***************************************************************************)
\* first render (useState initialisers) and the mount-only search effect
Mount ==
    /\ ~mounted
    /\ mounted' = TRUE
    /\ filters' = FiltersFromUrl(url)
    /\ searchQuery' = appliedSearchQuery(url)
    /\ search([FiltersFromUrl(url) EXCEPT !.query = Some(appliedSearchQuery(url))],
              [page |-> Some(DEFAULT_PAGE), pageSize |-> Some(PAGE_SIZE)])
    /\ rendered' = [params |-> None, url |-> url, data |-> None]
    /\ needsRender' = TRUE
    /\ UNCHANGED <<url, prevData, clock, navigated, events>>
    /\ UNCHANGED <<serverVars, fn, panelVars>>

\* onSearchChange: typing into the search input
SetSearchQuery(text) ==
    /\ mounted /\ ~needsRender
    /\ Event("type")
    /\ searchQuery' = text
    /\ UNCHANGED <<mounted, url, filters, searchParams, apiError, rendered,
                   needsRender, cache, inflight, prevData, calls, clock,
                   searchReturn, streak>>
    /\ UNCHANGED <<serverVars, fn, panelVars>>

\* handleSearch: the Search button
HandleSearch ==
    /\ mounted /\ ~needsRender
    /\ Event("submit")
    /\ LET queryToSearch == IF Trim(searchQuery) # <<>> THEN Trim(searchQuery)
                            ELSE DEFAULT_SEARCH_QUERY
           searchFilters == [filters EXCEPT !.query = Some(queryToSearch)]
       IN /\ searchQuery' = IF Trim(searchQuery) = <<>> THEN DEFAULT_SEARCH_QUERY
                            ELSE searchQuery
          /\ url' = filtersToURLParams(searchFilters)
          /\ search(searchFilters,
                    [page |-> Some(DEFAULT_PAGE), pageSize |-> Some(PAGE_SIZE)])
    /\ needsRender' = TRUE
    /\ UNCHANGED <<mounted, filters, rendered, prevData, clock>>
    /\ UNCHANGED <<serverVars, fn, panelVars>>

\* useJobPagination.handlePageChange
handlePageChange(newPage) ==
    /\ mounted /\ ~needsRender
    /\ Event("page")
    /\ url' = [url EXCEPT !.p = IF newPage = DEFAULT_PAGE THEN None
                                ELSE Some(PageToString(newPage))]
    /\ search(buildFilters(filters, url),
              [page |-> Some(newPage), pageSize |-> Some(PAGE_SIZE)])
    /\ needsRender' = TRUE
    /\ UNCHANGED <<mounted, filters, searchQuery, rendered, prevData, clock>>
    /\ UNCHANGED <<serverVars, fn, panelVars>>

\* browser back/forward: the URL changes under the mounted page
Navigate(u) ==
    /\ mounted /\ ~needsRender
    /\ u # url
    /\ Event("navigate")
    /\ url' = u
    /\ needsRender' = TRUE
    /\ UNCHANGED <<mounted, filters, searchQuery, searchParams, apiError, rendered,
                   cache, inflight, prevData, calls, clock, searchReturn, streak>>
    /\ UNCHANGED <<serverVars, fn, panelVars>>

(***************************************************************************)
(* useJobFilters                                                           *)
(***************************************************************************)
FilterFrame ==
    UNCHANGED <<mounted, url, searchQuery, searchParams, apiError, rendered,
                cache, inflight, prevData, calls, clock, searchReturn, streak,
                serverVars, fn, panelVars>>

\* variant: a toggle also submits the search
toggleFilterSearching(key, value) ==
    /\ mounted /\ ~needsRender
    /\ Event("filter")
    /\ LET newValues == toggleFilterValue(filters[key], value)
           newFilters == [filters EXCEPT ![key] = IF Len(newValues) > 0
                                                  THEN Some(newValues) ELSE None]
       IN /\ filters' = newFilters
          /\ search(buildFilters(newFilters, url),
                    [page |-> Some(DEFAULT_PAGE), pageSize |-> Some(PAGE_SIZE)])
    /\ needsRender' = TRUE
    /\ UNCHANGED <<mounted, url, searchQuery, rendered, prevData, clock>>
    /\ UNCHANGED <<serverVars, fn, panelVars>>

\* variant: a toggle also writes the filters to the URL (keeping p)
toggleFilterUpdatingUrl(key, value) ==
    /\ mounted /\ ~needsRender
    /\ Event("filter")
    /\ LET newValues == toggleFilterValue(filters[key], value)
           newFilters == [filters EXCEPT ![key] = IF Len(newValues) > 0
                                                  THEN Some(newValues) ELSE None]
       IN /\ filters' = newFilters
          /\ url' = [filtersToURLParams(newFilters) EXCEPT
                        !.p = IF Truthy(url.p) THEN url.p ELSE None]
    /\ needsRender' = TRUE
    /\ UNCHANGED <<mounted, searchQuery, searchParams, apiError, rendered, cache,
                   inflight, prevData, calls, clock, searchReturn, streak>>
    /\ UNCHANGED <<serverVars, fn, panelVars>>

toggleFilter(key, value) ==
    /\ mounted /\ ~needsRender
    /\ Event("filter")
    /\ filters' = ToggledFilters(filters, key, value)
    /\ needsRender' = TRUE
    /\ FilterFrame

setFilter(key, value) ==
    /\ mounted /\ ~needsRender
    /\ Event("filter")
    /\ filters' = [filters EXCEPT ![key] = Some(value)]
    /\ needsRender' = TRUE
    /\ FilterFrame

clearFilter(key) ==
    /\ mounted /\ ~needsRender
    /\ Event("filter")
    /\ filters' = [filters EXCEPT ![key] = None]
    /\ needsRender' = TRUE
    /\ FilterFrame

clearAllFilters ==
    /\ mounted /\ ~needsRender
    /\ Event("filter")
    /\ filters' = [EmptyFilters EXCEPT !.query = IF Truthy(filters.query)
                                                 THEN filters.query ELSE None]
    /\ needsRender' = TRUE
    /\ FilterFrame

(***************************************************************************)
(* useJobSearch: direct calls, completions, renders                        *)
(***************************************************************************)
\* a caller invokes search() itself; the closure may predate the last setState
Search(f, pg) ==
    /\ mounted
    /\ Event("search")
    /\ search(f, pg)
    /\ needsRender' = TRUE
    /\ UNCHANGED <<mounted, url, filters, searchQuery, rendered, prevData, clock>>
    /\ UNCHANGED <<serverVars, fn, panelVars>>

\* observer.refetch() on the observed query (cancelRefetch defaults to true)
refetch(q, k) ==
    IF k \notin DOMAIN q.cache
    THEN \* the query was removed from the cache: its fetch updates nothing
         [cache    |-> q.cache,
          inflight |-> q.inflight \cup {[key |-> k, attached |-> FALSE]},
          calls    |-> Put(q.calls, k, Count(q.calls, k) + 1)]
    ELSE IF IsFetching(q.cache, k) /\ ~HasData(q.cache, k) THEN q
    ELSE Invoke([q EXCEPT !.inflight =
                    {IF r.key = k THEN [r EXCEPT !.attached = FALSE] ELSE r :
                        r \in q.inflight}], k)

retrySearch ==
    /\ mounted
    /\ Event("retry")
    /\ IF rendered.params # None
       THEN LET q == refetch(QueryClient, createQueryKey(rendered.params))
            IN /\ apiError' = None
               /\ cache' = q.cache
               /\ inflight' = q.inflight
               /\ calls' = q.calls
               /\ needsRender' = TRUE
       ELSE UNCHANGED <<apiError, cache, inflight, calls, needsRender>>
    /\ streak' = NoStreak
    /\ UNCHANGED <<mounted, url, filters, searchQuery, searchParams, rendered,
                   prevData, clock, searchReturn>>
    /\ UNCHANGED <<serverVars, fn, panelVars>>

\* clearSearch: removeQueries drops every query; calls in flight keep running
clearSearch ==
    /\ mounted
    /\ Event("clear")
    /\ searchParams' = None
    /\ apiError' = None
    /\ cache' = NoCache
    /\ inflight' = {[r EXCEPT !.attached = FALSE] : r \in inflight}
    /\ prevData' = [prevData EXCEPT !.live = FALSE]
    /\ needsRender' = TRUE
    /\ streak' = NoStreak
    /\ UNCHANGED <<mounted, url, filters, searchQuery, rendered, calls, clock,
                   searchReturn>>
    /\ UNCHANGED <<serverVars, fn, panelVars>>

\* the executor's call r completes: the queryFn sets apiError and returns the
\* page, which the cache stores when the query is still the cached one
Complete(r, ok) ==
    /\ r \in inflight
    /\ ~needsRender
    /\ LET response == IF ok THEN SearchSucceeded(r.key) ELSE SearchFailed(r.key)
       IN /\ apiError' = IF ok THEN None ELSE Some(ErrorOf(r.key))
          /\ cache' = IF r.attached
                      THEN Put(cache, r.key, [data |-> Some(response),
                                              updatedAt |-> clock,
                                              fetching |-> FALSE])
                      ELSE cache
          /\ prevData' =
                 IF r.attached /\ (r.key = createQueryKey(rendered.params)
                                   \/ (prevData.live /\ prevData.data # None
                                       /\ The(prevData.data).from = r.key))
                 THEN [data |-> Some(response), live |-> TRUE]
                 ELSE prevData
    /\ inflight' = inflight \ {r}
    /\ needsRender' = TRUE
    /\ UNCHANGED <<mounted, url, filters, searchQuery, searchParams, rendered, calls,
                   clock, searchReturn, streak, navigated, events>>
    /\ UNCHANGED <<serverVars, fn, panelVars>>

\* a render commits: closures and the observer take the latest state, and the
\* effects that depend on the URL run (useJobFilters URL -> state, JobLayout
\* input sync)
Render ==
    /\ mounted /\ needsRender
    /\ LET q == ObserverUpdate(QueryClient, rendered.params, searchParams)
           k == createQueryKey(searchParams)
           applied == appliedSearchQuery(url)
           pd == IF HasData(q.cache, k)
                 THEN [data |-> q.cache[k].data, live |-> TRUE] ELSE prevData
       IN /\ cache' = q.cache
          /\ inflight' = q.inflight
          /\ calls' = q.calls
          /\ prevData' = pd
          /\ rendered' = [params |-> searchParams, url |-> url,
                          data |-> QueryData(searchParams, q.cache, pd)]
          /\ filters' = IF url # rendered.url THEN FiltersFromUrl(url) ELSE filters
          /\ searchQuery' = IF /\ applied # appliedSearchQuery(rendered.url)
                               /\ applied # <<>>
                               /\ applied # searchQuery
                            THEN applied ELSE searchQuery
    /\ needsRender' = FALSE
    /\ streak' = NoStreak
    /\ UNCHANGED <<mounted, url, searchParams, apiError, clock, searchReturn,
                   navigated, events>>
    /\ UNCHANGED <<serverVars, fn, panelVars>>

\* one staleness horizon (staleTime) passes
Tick ==
    /\ mounted /\ ~needsRender
    /\ clock < MaxClock
    /\ clock' = clock + 1
    /\ events < MaxEvents
    /\ events' = events + 1
    /\ UNCHANGED <<mounted, url, filters, searchQuery, searchParams, apiError,
                   rendered, needsRender, cache, inflight, prevData, calls,
                   searchReturn, streak, navigated>>
    /\ UNCHANGED <<serverVars, fn, panelVars>>

FilterStep ==
    \/ \E key \in MultiSelectKeys : \E value \in ToggleValues : toggleFilter(key, value)
    \/ \E key \in SetKeys : \E value \in SingleValues[key] : setFilter(key, value)
    \/ \E key \in ClearKeys : clearFilter(key)
    \/ clearAllFilters

Next ==
    \/ Mount
    \/ \E text \in InputTexts : SetSearchQuery(text)
    \/ HandleSearch
    \/ \E newPage \in Pages : handlePageChange(newPage)
    \/ \E u \in NavUrls : Navigate(u)
    \/ FilterStep
    \/ \E c \in HookCalls : Search(c[1], c[2])
    \/ retrySearch
    \/ clearSearch
    \/ \E r \in inflight : \E ok \in BOOLEAN : Complete(r, ok)
    \/ Render
    \/ Tick

Spec == Init /\ [][Next]_vars

(***************************************************************************)
(* Database: writers and the callers of the two procedures                 *)
(***************************************************************************)
Write ==
    /\ writes < MaxWrites
    /\ writes' = writes + 1
    /\ result' = NoResult

\* INSERT INTO jobs: the id is the next of the sequence, the trigger fires
InsertJob(row) ==
    /\ Cardinality(DOMAIN jobsTable) < MaxJobs
    /\ Write
    /\ jobsTable' = Put(jobsTable, Cardinality(DOMAIN jobsTable) + 1,
                        update_jobs_search_vector(row))
    /\ UNCHANGED <<uiVars, companies, fn, panelVars>>

\* UPDATE jobs SET col = value WHERE id = ...: the trigger fires when the
\* statement names one of its columns
UpdateJob(id, col, value) ==
    /\ id \in DOMAIN jobsTable
    /\ Write
    /\ LET new == [jobsTable[id] EXCEPT ![col] = value]
       IN jobsTable' = [jobsTable EXCEPT ![id] =
                           IF col \in TriggerColumns
                           THEN update_jobs_search_vector(new) ELSE new]
    /\ UNCHANGED <<uiVars, companies, fn, panelVars>>

\* UPDATE companies SET is_active = ...
SetCompanyActive(c, active) ==
    /\ companies[c] # active
    /\ Write
    /\ companies' = [companies EXCEPT ![c] = active]
    /\ UNCHANGED <<uiVars, jobsTable, fn, panelVars>>

\* the call continues a scan: same criteria and page size, the next page
Continues(f, page, pageSize) ==
    /\ result.op = "search"
    /\ result.filters = f
    /\ result.pageSize = pageSize
    /\ page = result.page + 1

\* jobService.searchJobs(filters, pagination) against the database
SearchJobs(f, pg) ==
    \E order \in Orderings(Selected(toSearchJobsRpcParams(f, pg))) :
        LET page == OrElse(pg.page, 1)
            pageSize == OrElse(pg.pageSize, DEFAULT_PAGE_SIZE)
            response == searchJobs(f, pg, order)
            ids == [i \in DOMAIN response.jobs |-> response.jobs[i].id]
        IN /\ result' = [op |-> "search", filters |-> f, page |-> page,
                         pageSize |-> pageSize, response |-> response,
                         first |-> IF Continues(f, page, pageSize)
                                   THEN result.first ELSE page,
                         seen |-> IF Continues(f, page, pageSize)
                                  THEN result.seen \o ids ELSE ids]
           /\ UNCHANGED <<uiVars, companies, jobsTable, writes, fn, panelVars>>

\* jobRepository.getCompaniesForJobs(params), the path without error
GetCompaniesForJobs(f, limit) ==
    LET params == [toGetCompaniesRpcParams(f) EXCEPT !.p_limit = limit]
    IN /\ result' = [op |-> "facet", filters |-> f, limit |-> limit,
                     data |-> get_companies_for_search(params)]
       /\ UNCHANGED <<uiVars, companies, jobsTable, writes, fn, panelVars>>

DbInit ==
    /\ Init
    /\ url = EmptyUrl

DbNext ==
    \/ \E row \in NewJobs : InsertJob(row)
    \/ \E id \in 1..MaxJobs : \E u \in JobUpdates : UpdateJob(id, u[1], u[2])
    \/ \E c \in {ACME, ZETA} : \E active \in BOOLEAN : SetCompanyActive(c, active)
    \/ \E f \in DbFilters : \E pg \in DbPaginations : SearchJobs(f, pg)
    \/ \E f \in DbFilters : \E limit \in FacetLimits : GetCompaniesForJobs(f, limit)

DbSpec == DbInit /\ [][DbNext]_vars

(***************************************************************************)
(* Pure functions, each applied once to drawn inputs                       *)
(***************************************************************************)
ENTRY_LEVEL_LIST == <<"senior", ",", "entry-level">>

\* submissions of search(): criteria that differ in how they spell a default
KeyFilters ==
    {[query |-> Some(q), experienceLevel |-> e, language |-> l, datePreset |-> d] :
        q \in {REACT, <<"react", " ">>}, e \in {None, Some(<<>>)},
        l \in {None, Some(ENGLISH)}, d \in {None, Some(ANY)}}

KeyPaginations ==
    { [page |-> None, pageSize |-> None],
      [page |-> Some(1), pageSize |-> Some(DEFAULT_PAGE_SIZE)] }

\* criteria the codec is applied to
CodecFilters ==
    {[query |-> Some(REACT), experienceLevel |-> e, language |-> l, datePreset |-> d] :
        e \in {None, Some(<<>>), Some(<<SENIOR>>), Some(<<SENIOR, ENTRY>>)},
        l \in {None, Some(ENGLISH), Some(SPANISH)},
        d \in {None, Some(ANY), Some(WEEK)}}

\* URLs a filter state is decoded from
FilterUrls ==
    {[EmptyUrl EXCEPT !.exp = e] :
        e \in {None, Some(SENIOR), Some(<<"senior", ",", "senior">>),
               Some(ENTRY_LEVEL_LIST)}}

FnFrame == UNCHANGED <<uiVars, serverVars, panelVars>>

\* two submissions to search(): the criteria keys they are given
ApplyKey(a, pga, b, pgb) ==
    /\ fn = NoFn
    /\ fn' = [op |-> "key", a |-> a, pga |-> pga, b |-> b, pgb |-> pgb,
              keyA |-> RequestKey(a, pga), keyB |-> RequestKey(b, pgb)]
    /\ FnFrame

ApplyTransform(n, totalCount, page, pageSize) ==
    /\ fn = NoFn
    /\ fn' = [op |-> "page", by |-> "transformSearchResponse",
              rows |-> n, totalCount |-> totalCount, page |-> page,
              pageSize |-> pageSize,
              out |-> transformSearchResponse([i \in 1..n |-> i], totalCount,
                                              page, pageSize)]
    /\ FnFrame

ApplyEmpty(page, pageSize) ==
    /\ fn = NoFn
    /\ fn' = [op |-> "page", by |-> "createEmptySearchResponse",
              rows |-> 0, totalCount |-> 0, page |-> page,
              pageSize |-> pageSize,
              out |-> createEmptySearchResponse(page, pageSize)]
    /\ FnFrame

\* useJobFilters is initialised from a URL
DecodeFilters(u) ==
    /\ fn = NoFn
    /\ fn' = [op |-> "filters", filters |-> FiltersFromUrl(u)]
    /\ FnFrame

\* toggleFilter on that state
ApplyToggle(key, value) ==
    /\ fn.op = "filters"
    /\ fn' = [op |-> "filters", filters |-> ToggledFilters(fn.filters, key, value)]
    /\ FnFrame

\* encode to a query string, then decode it
ApplyCodec(x, page) ==
    LET encoded == paginationToURLParams(page, filtersToURLParams(x))
    IN /\ fn = NoFn
       /\ fn' = [op |-> "codec", x |-> x, page |-> page, url |-> encoded,
                 filters |-> urlParamsToFilters(encoded),
                 decodedPage |-> urlParamsToPage(encoded)]
       /\ FnFrame

\* the enum vocabularies (database.ts Enums, DatePreset)
ExperienceLevels ==
    {ENTRY, <<"mid-level">>, SENIOR, <<"manager">>, <<"director">>, <<"executive">>}
Languages == {ENGLISH, SPANISH}
DatePresets == {ANY, <<"month">>, WEEK, <<"24hours">>}

\* URLs with values inside and outside the vocabularies
MalformedUrls ==
    {[EmptyUrl EXCEPT !.q = Some(REACT), !.exp = e, !.lang = l, !.date = d] :
        e \in {None, Some(SENIOR), Some(<<",">>), Some(<<"senior", ",">>),
               Some(<<"guru">>)},
        l \in {None, Some(SPANISH), Some(<<"klingon">>)},
        d \in {None, Some(WEEK), Some(<<"yesterday">>)}}

\* JobSearchFilters of a FilterState: no company is selected
Criteria(f) ==
    [query |-> f.query, experienceLevel |-> f.experienceLevel, company |-> None,
     language |-> f.language, datePreset |-> f.datePreset]

\* the page is opened on a URL: the filter state decoded from it and the
\* search request built from that state
DecodeRequest(u) ==
    LET state == FiltersFromUrl(u)
    IN /\ fn = NoFn
       /\ fn' = [op |-> "decode", url |-> u, decoded |-> urlParamsToFilters(u),
                 filters |-> state,
                 search |-> toSearchJobsRpcParams(
                               Criteria(buildFilters(state, u)),
                               [page |-> Some(DEFAULT_PAGE),
                                pageSize |-> Some(PAGE_SIZE)])]
       /\ FnFrame

\* criteria the request builders are applied to
RpcFilters ==
    {[BaseCriteria EXCEPT !.experienceLevel = e, !.datePreset = d] :
        e \in {None, Some(<<SENIOR>>)},
        d \in {None, Some(ANY), Some(WEEK), Some(<<"month">>), Some(<<"24hours">>)}}

\* the search request and the facet request of the same criteria
ApplyRpcParams(f, pg) ==
    /\ fn = NoFn
    /\ fn' = [op |-> "rpc", x |-> f, pg |-> pg,
              range |-> IF f.datePreset # None
                        THEN Some(datePresetToRange(The(f.datePreset))) ELSE None,
              search |-> toSearchJobsRpcParams(f, pg),
              facet |-> toGetCompaniesRpcParams(f)]
    /\ FnFrame

\* handleUnknownError: the typed errors of the repository
RepositoryErrors == {"QUERY_ERROR", "NETWORK_ERROR"}

\* jobRepository.searchJobs: what the call resolves to, whether the procedure
\* answers rows, answers an error, or the client throws
RepositoryResult(answer, rows) ==
    IF answer = "rows"
    THEN [data |-> rows, totalCount |-> RepositoryTotalCount(rows), error |-> None]
    ELSE [data |-> <<>>, totalCount |-> 0, error |-> Some(answer)]

\* variant: a failed search answers the empty first page of the default size
searchJobsResponseFirstPage(repositoryResult, pg) ==
    LET page == OrElse(pg.page, 1)
        pageSize == OrElse(pg.pageSize, DEFAULT_PAGE_SIZE)
    IN IF repositoryResult.error # None
       THEN [response |-> createEmptySearchResponse(1, DEFAULT_PAGE_SIZE),
             error |-> repositoryResult.error]
       ELSE [response |-> transformSearchResponse(repositoryResult.data,
                              repositoryResult.totalCount, page, pageSize),
             error |-> None]

\* jobService.searchJobs on the result of the repository
searchJobsResponse(repositoryResult, pg) ==
    LET page == OrElse(pg.page, 1)
        pageSize == OrElse(pg.pageSize, DEFAULT_PAGE_SIZE)
    IN IF repositoryResult.error # None
       THEN [response |-> createEmptySearchResponse(page, pageSize),
             error |-> repositoryResult.error]
       ELSE [response |-> transformSearchResponse(repositoryResult.data,
                              repositoryResult.totalCount, page, pageSize),
             error |-> None]

\* paginations the service is called with
ServicePaginations ==
    {[page |-> Some(n), pageSize |-> Some(s)] : n \in Pages, s \in {1, PAGE_SIZE}}
        \cup {[page |-> None, pageSize |-> None]}

\* a search through the service whose repository call answers rows or fails
ApplyService(answer, n, pg) ==
    LET rows == [i \in 1..n |-> [id |-> i, total_count |-> n]]
    IN /\ fn = NoFn
       /\ fn' = [op |-> "service", answer |-> answer, pg |-> pg,
                 out |-> searchJobsResponse(RepositoryResult(answer, rows), pg)]
       /\ FnFrame

\* new Date() when a posting date is formatted, in seconds
FormatNow == 40000000
SECONDS_PER_MINUTE == 60
SECONDS_PER_HOUR == 3600
SECONDS_PER_DAY == 86400

\* A date string is what new Date(dateString) makes of it: an instant (whole
\* seconds) or Invalid Date.  getTime() of Invalid Date is NaN, here {}.
GetTime(dateString) ==
    IF dateString.valid THEN Some(dateString.time) ELSE None

\* arithmetic with NaN: a comparison with NaN is false, Math.floor(NaN / d)
\* is NaN, and NaN formats as "NaN"
Below(a, n) == a # None /\ The(a) < n
AtMost(a, n) == a # None /\ The(a) <= n
Equals(a, n) == a # None /\ The(a) = n
FloorDiv(a, d) == {v \div d : v \in a}
NumberText(a) == IF a = None THEN <<"NaN">> ELSE PageToString(The(a))
Ago(count, unit) == count \o <<" ", unit, " ", "ago">>

\* the body of formatRelativeDate; weekDays is the number of days of a week
RelativeLabel(dateString, weekDays) ==
    LET diff == {FormatNow - t : t \in GetTime(dateString)}
        diffInMinutes == FloorDiv(diff, SECONDS_PER_MINUTE)
        diffInHours == FloorDiv(diff, SECONDS_PER_HOUR)
        diffInDays == FloorDiv(diff, SECONDS_PER_DAY)
    IN IF Below(diff, 0) THEN <<"just", " ", "now">>
       ELSE IF Equals(diffInDays, 0)
            THEN IF AtMost(diffInMinutes, 1) THEN Ago(<<"1">>, "minute")
                 ELSE IF Below(diffInMinutes, 60)
                      THEN Ago(NumberText(diffInMinutes), "minutes")
                 ELSE IF Equals(diffInHours, 1) THEN Ago(<<"1">>, "hour")
                 ELSE Ago(NumberText(diffInHours), "hours")
       ELSE IF Equals(diffInDays, 1) THEN Ago(<<"1">>, "day")
       ELSE IF Below(diffInDays, 7) THEN Ago(NumberText(diffInDays), "days")
       ELSE IF Below(diffInDays, 14) THEN Ago(<<"1">>, "week")
       ELSE IF Below(diffInDays, 30)
            THEN Ago(NumberText(FloorDiv(diffInDays, weekDays)), "weeks")
       ELSE IF Below(diffInDays, 60) THEN Ago(<<"1">>, "month")
       ELSE Ago(NumberText(FloorDiv(diffInDays, 30)), "months")

\* variant: weeks of ten days
formatRelativeDateLongWeeks(dateString) == RelativeLabel(dateString, 10)

\* formatRelativeDate(dateString); nothing in the body throws, so the catch
\* block is never entered
formatRelativeDate(dateString) == RelativeLabel(dateString, 7)

\* elapsed times around every breakpoint, in seconds
ElapsedTimes ==
    {0 - SECONDS_PER_MINUTE, 0, 59, 60, 90, 119, 120,
     SECONDS_PER_HOUR - 1, SECONDS_PER_HOUR, 2 * SECONDS_PER_HOUR - 1,
     2 * SECONDS_PER_HOUR, SECONDS_PER_DAY - 1, SECONDS_PER_DAY,
     25 * SECONDS_PER_HOUR, 2 * SECONDS_PER_DAY - 1}
        \cup {n * SECONDS_PER_DAY :
                 n \in {2, 6, 7, 10, 13, 14, 20, 21, 29, 30, 59, 60, 89, 90, 400}}
        \cup {7 * SECONDS_PER_DAY - 1, 14 * SECONDS_PER_DAY - 1,
              30 * SECONDS_PER_DAY - 1, 60 * SECONDS_PER_DAY - 1}

\* posting dates: timestamps that far in the past, and strings that are no date
DateStrings ==
    {[valid |-> TRUE, text |-> <<"timestamp">>, time |-> FormatNow - e] :
        e \in ElapsedTimes}
        \cup {[valid |-> FALSE, text |-> t, time |-> 0] :
                 t \in {<<>>, <<"not-a-date">>, <<"2024-13-45">>}}

ApplyFormat(dateString) ==
    /\ fn = NoFn
    /\ fn' = [op |-> "date", dateString |-> dateString,
              out |-> formatRelativeDate(dateString)]
    /\ FnFrame

\* values of the page parameter
PageUrls ==
    {[EmptyUrl EXCEPT !.q = Some(REACT), !.p = v] :
        v \in {None, Some(<<>>), Some(<<"1">>), Some(<<"2">>), Some(<<"0">>),
               Some(<<"-", "1">>), Some(<<"abc">>), Some(<<"2", "x">>)}}

\* the page of a URL, as the hook reads it and as the URL utility reads it
ApplyPage(u) ==
    /\ fn = NoFn
    /\ fn' = [op |-> "pageOf", url |-> u, current |-> currentPage(u),
              parsed |-> urlParamsToPage(u)]
    /\ FnFrame

FnInit ==
    /\ Init
    /\ url = EmptyUrl

FnNext ==
    \/ \E a, b \in KeyFilters : \E pga, pgb \in KeyPaginations : ApplyKey(a, pga, b, pgb)
    \/ \E n \in 0..MaxRows : \E totalCount \in 0..(MaxRows + 1) :
          \E page \in Pages : \E pageSize \in 1..MaxRows :
             ApplyTransform(n, totalCount, page, pageSize)
    \/ \E page \in Pages : \E pageSize \in 1..MaxRows : ApplyEmpty(page, pageSize)
    \/ \E u \in FilterUrls : DecodeFilters(u)
    \/ \E key \in MultiSelectKeys : \E value \in {SENIOR, ENTRY} : ApplyToggle(key, value)
    \/ \E x \in CodecFilters : \E page \in Pages : ApplyCodec(x, page)
    \/ \E u \in MalformedUrls : DecodeRequest(u)
    \/ \E f \in RpcFilters : \E pg \in DbPaginations : ApplyRpcParams(f, pg)
    \/ \E answer \in {"rows"} \cup RepositoryErrors : \E n \in 0..MaxRows :
          \E pg \in ServicePaginations : ApplyService(answer, n, pg)
    \/ \E dateString \in DateStrings : ApplyFormat(dateString)
    \/ \E u \in PageUrls : ApplyPage(u)

FnSpec == FnInit /\ [][FnNext]_vars

(***************************************************************************)
(* useCompanyOptions: the loads of the company options                     *)
(***************************************************************************)
\* A load is the request it sends; the list a load delivers is identified
\* with that request.  options.requests[i] is the i-th load started and
\* options.outcome[i] is "pending" until its await resolves.
AllCompanies == [kind |-> "all", params |-> None]
CompaniesFor(f) == [kind |-> "search", params |-> Some(toGetCompaniesRpcParams(f))]

\* setIsLoading(true); setError(null); the request is sent
StartLoad(o, request) ==
    [o EXCEPT !.isLoading = TRUE, !.error = None,
              !.requests = Append(@, request), !.outcome = Append(@, "pending")]

\* loadAllCompanies, up to its await
loadAllCompanies(o) == StartLoad(o, AllCompanies)

\* refreshForSearch(filters), up to its await
refreshForSearch(o, f) ==
    IF f.query = None \/ Trim(The(f.query)) = <<>>
    THEN loadAllCompanies(o)
    ELSE StartLoad(o, CompaniesFor(f))

\* the continuation of load i after its await: the repository answered data,
\* answered an error, or the call threw
resumeLoad(o, i, answer) ==
    LET request == o.requests[i]
        settled == [o EXCEPT !.outcome[i] = answer, !.isLoading = FALSE]
    IN IF answer = "data"
       THEN [settled EXCEPT !.companies = [by |-> i, list |-> request]]
       ELSE IF request.kind = "all"
       THEN [settled EXCEPT !.companies = [by |-> i, list |-> NoCompanies],
                            !.error = IF answer = "error" THEN Some(i) ELSE @]
       ELSE [settled EXCEPT !.error = IF answer = "error" THEN Some(i) ELSE @]

\* criteria handleSearch refreshes the options for
OptionFilters ==
    { BaseCriteria,
      [BaseCriteria EXCEPT !.experienceLevel = Some(<<SENIOR>>)],
      [BaseCriteria EXCEPT !.query = Some(<<" ">>)] }

OptionsFrame == UNCHANGED <<uiVars, serverVars, fn, selection>>

\* mount: the autoLoad effect of the hook, then JobLayout's mount effect
OptionsMount ==
    /\ ~options.mounted
    /\ options' = refreshForSearch(
                      loadAllCompanies([options EXCEPT !.mounted = TRUE]),
                      Criteria(buildFilters(FiltersFromUrl(url), url)))
    /\ OptionsFrame

\* handleSearch, after its search has resolved
RefreshForSearch(f) ==
    /\ options.mounted
    /\ Len(options.requests) < MaxLoads
    /\ options' = refreshForSearch(options, f)
    /\ OptionsFrame

\* the await of load i resolves
ResumeLoad(i, answer) ==
    /\ options.outcome[i] = "pending"
    /\ options' = resumeLoad(options, i, answer)
    /\ OptionsFrame

OptionsNext ==
    \/ OptionsMount
    \/ \E f \in OptionFilters : RefreshForSearch(f)
    \/ \E i \in DOMAIN options.outcome : \E answer \in {"data", "error", "thrown"} :
          ResumeLoad(i, answer)

OptionsSpec == Init /\ [][OptionsNext]_vars

(***************************************************************************)
(* useJobPagination: the selected job                                      *)
(***************************************************************************)
JobIds == {"j1", "j2", "j3", "j4", "j5"}

\* pages of jobs: rows of distinct ids
JobPages ==
    {p \in UNION {[1..n -> [id : JobIds]] : n \in 0..MaxRows} :
        \A i, j \in DOMAIN p : p[i].id = p[j].id => i = j}

\* variant: the stored selection is exposed as it is
effectiveSelectedJobIdStored(s) == s.selectedJobId

\* effectiveSelectedJobId
effectiveSelectedJobId(s) ==
    IF Len(s.apiJobs) = 0 THEN None
    ELSE IF /\ \E i \in DOMAIN s.apiJobs : Some(s.apiJobs[i].id) = s.selectedJobId
            /\ s.selectedJobId # None
         THEN s.selectedJobId
         ELSE Some(s.apiJobs[1].id)

\* selectedJob: apiJobs.find(job => job.id === effectiveSelectedJobId) ?? null
selectedJob(s) ==
    LET found == {i \in DOMAIN s.apiJobs :
                     Some(s.apiJobs[i].id) = effectiveSelectedJobId(s)}
    IN IF found = {} THEN None
       ELSE Some(s.apiJobs[CHOOSE i \in found : \A j \in found : i <= j])

SelectionFrame == UNCHANGED <<uiVars, serverVars, fn, options>>

\* JobLayout.handleJobSelect: a job of the list is clicked
handleJobSelect(job) ==
    /\ \E i \in DOMAIN selection.apiJobs : selection.apiJobs[i] = job
    /\ selection' = [selection EXCEPT !.selectedJobId = Some(job.id)]
    /\ SelectionFrame

\* a page change or a refetch replaces the jobs; the stored selection stays
ReplaceJobs(jobPage) ==
    /\ jobPage # selection.apiJobs
    /\ selection' = [selection EXCEPT !.apiJobs = jobPage]
    /\ SelectionFrame

\* handleSearch: the search resolves, then setSelectedJobId(null)
SubmitSearch(jobPage) ==
    /\ selection' = [apiJobs |-> jobPage, selectedJobId |-> None]
    /\ SelectionFrame

SelectionNext ==
    \/ \E job \in [id : JobIds] : handleJobSelect(job)
    \/ \E jobPage \in JobPages : ReplaceJobs(jobPage)
    \/ \E jobPage \in JobPages : SubmitSearch(jobPage)

SelectionInit ==
    /\ Init
    /\ url = EmptyUrl

SelectionSpec == SelectionInit /\ [][SelectionNext]_vars

(***************************************************************************)
(* Properties                                                              *)
(***************************************************************************)
LatestKey == createQueryKey(searchParams)
ObservedKey == createQueryKey(rendered.params)

\* C1: when a request whose key is not the latest requested key completes
\* after the latest one has settled, the jobs and pagination the hook exposes
\* stay those of the latest request.
C1_LateCompletionKeepsResult ==
    [][\A r \in inflight : \A ok \in BOOLEAN :
          (/\ Complete(r, ok)
           /\ r.key # LatestKey
           /\ HasData(cache, LatestKey))
          => /\ data' = data
             /\ jobs' = jobs
             /\ pagination' = pagination
             /\ The(data').from = LatestKey]_vars

\* a superseded request completed one horizon after the displayed one settled
C1_Witness ==
    /\ ~needsRender
    /\ HasData(cache, ObservedKey)
    /\ data = cache[ObservedKey].data
    /\ \E a \in DOMAIN cache :
          /\ a # ObservedKey
          /\ HasData(cache, a)
          /\ cache[a].updatedAt > cache[ObservedKey].updatedAt

\* C2: the completion of a request whose key is not the latest requested key
\* leaves isError and error unchanged.
C2_SupersededCompletionKeepsError ==
    [][\A r \in inflight : \A ok \in BOOLEAN :
          (Complete(r, ok) /\ r.key # LatestKey)
          => (isError' = isError /\ error' = error)]_vars

\* C3 (as stated): two search() calls with one criteria key, made before the
\* next render, cause exactly one invocation of the executor for that key,
\* the observer's subscription on the following render included.
C3_TwoCallsExactlyOne ==
    [][/\ streak'.n >= 2 => Count(calls', streak'.key) = streak'.base + 1
       /\ (Render /\ streak.n >= 2)
             => Count(calls', streak.key) = streak.base + 1]_vars

\* C3 (amended): they cause at most one invocation: exactly one when, at the
\* first call, the key had no fresh cache entry, no request in flight and was
\* not the current criteria key; none otherwise.
C3_TwoCallsAtMostOne ==
    [][/\ streak'.n >= 2
             => Count(calls', streak'.key) =
                    streak'.base + (IF streak'.covered THEN 0 ELSE 1)
       /\ (Render /\ streak.n >= 2)
             => Count(calls', streak.key) =
                    streak.base + (IF streak.covered THEN 0 ELSE 1)]_vars

\* two calls in a row for a key that was new: one invocation
C3_Witness ==
    /\ streak.n = 2
    /\ ~streak.covered
    /\ Count(calls, streak.key) = streak.base + 1
    /\ LatestKey = streak.key

\* C4: whenever the settled result shown for the current criteria key is the
\* page of a failed executor call, the hook reports isError with an error.
C4_FailureIsReported ==
    (/\ ~needsRender
     /\ ~isFetching
     /\ data # None
     /\ The(data).failed
     /\ The(data).from = ObservedKey)
    => (isError /\ error # None)

\* C5: the executor is never invoked with a query that is empty after
\* trimming, and a search() call with such a query returns the empty state
\* and leaves the hook without criteria and without error.
C5_EmptyQueryShortCircuits ==
    [][/\ \A k \in DOMAIN calls' : k.query # None /\ Trim(The(k.query)) # <<>>
       /\ (/\ Mount \/ \E newPage \in Pages : handlePageChange(newPage)
           /\ Trim(appliedSearchQuery(url)) = <<>>)
             => /\ searchParams' = None
                /\ apiError' = None
                /\ searchReturn' = Returned("value", Some(EmptyState), EmptyKey)
                /\ calls' = calls]_vars

\* the view was mounted on a URL whose q is blank: nothing was requested
C5_Witness ==
    /\ mounted
    /\ Trim(appliedSearchQuery(url)) = <<>>
    /\ appliedSearchQuery(url) # <<>>
    /\ searchReturn = Returned("value", Some(EmptyState), EmptyKey)
    /\ searchParams = None
    /\ calls = NoCache

\* C6: no filter mutation invokes the executor or changes the orchestrator
\* (criteria, cache, requests in flight, error), and the render that follows a
\* step which requested no new criteria invokes nothing either.
C6_FilterMutationsDoNotSearch ==
    [][/\ FilterStep
             => UNCHANGED <<searchParams, apiError, cache, inflight, calls, prevData>>
       /\ (Render /\ searchParams = rendered.params)
             => UNCHANGED <<cache, inflight, calls>>]_vars

\* a toggled filter has been rendered and only the initial request was made
C6_Witness ==
    /\ mounted /\ ~needsRender
    /\ events >= 1
    /\ filters.experienceLevel # urlParamsToFilters(url).experienceLevel
    /\ DOMAIN calls = {ObservedKey}
    /\ calls[ObservedKey] = 1

CachedInsideHorizon(k) ==
    /\ k \in DOMAIN cache
    /\ cache[k].data # None
    /\ clock - cache[k].updatedAt < STALE_TIME

PageKey(newPage) ==
    RequestKey(buildFilters(filters, url),
               [page |-> Some(newPage), pageSize |-> Some(PAGE_SIZE)])

\* C8 (as stated): a page change to key K invokes the executor exactly once
\* when K has no cache entry inside the horizon and not at all when it has,
\* and then the cached page is displayed.
C8_PageChangeOnceUnlessCached ==
    [][/\ \A newPage \in Pages :
             (handlePageChange(newPage) /\ Trim(appliedSearchQuery(url)) # <<>>)
             => IF CachedInsideHorizon(PageKey(newPage))
                THEN calls' = calls
                ELSE Count(calls', PageKey(newPage)) = Count(calls, PageKey(newPage)) + 1
       /\ (Render /\ CachedInsideHorizon(LatestKey))
             => (calls' = calls /\ rendered'.data = cache[LatestKey].data)]_vars

\* C8 (amended): exactly once when K has no cache entry inside the horizon, no
\* request for K is in flight and K is not the current criteria key; not at
\* all otherwise; a K cached inside the horizon is displayed from the cache.
C8_PageChangeOnceUnlessCovered ==
    [][/\ \A newPage \in Pages :
             (handlePageChange(newPage) /\ Trim(appliedSearchQuery(url)) # <<>>)
             => IF \/ CachedInsideHorizon(PageKey(newPage))
                   \/ \E r \in inflight : r.attached /\ r.key = PageKey(newPage)
                   \/ PageKey(newPage) = ObservedKey
                THEN calls' = calls
                ELSE /\ Count(calls', PageKey(newPage)) =
                            Count(calls, PageKey(newPage)) + 1
                     /\ \A k \in DOMAIN calls : calls'[k] = calls[k] \/ k = PageKey(newPage)
       /\ (Render /\ (CachedInsideHorizon(LatestKey)
                      \/ \E r \in inflight : r.attached /\ r.key = LatestKey))
             => calls' = calls
       /\ (Render /\ CachedInsideHorizon(LatestKey))
             => rendered'.data = cache[LatestKey].data]_vars

\* page 2 was fetched once, and the return to page 1 was served from the cache
C8_Witness ==
    /\ mounted /\ ~needsRender
    /\ url.p = None
    /\ searchReturn.kind = "value"
    /\ searchReturn.key = ObservedKey
    /\ ObservedKey.page = Some(1)
    /\ data = cache[ObservedKey].data
    /\ Count(calls, ObservedKey) = 1
    /\ LET k2 == [ObservedKey EXCEPT !.page = Some(2)]
       IN HasData(cache, k2) /\ Count(calls, k2) = 1

\* the criteria key a URL stands for
UrlKey(u) ==
    RequestKey([FiltersFromUrl(u) EXCEPT !.query = Some(appliedSearchQuery(u))],
               [page |-> Some(currentPage(u)), pageSize |-> Some(PAGE_SIZE)])

\* C9: once the initial request of a view mounted on a URL has settled, the
\* page displayed is the one of the URL's criteria, page number included.
C9_MountShowsUrlCriteria ==
    (/\ mounted /\ events = 0
     /\ ~needsRender /\ inflight = {}
     /\ Trim(appliedSearchQuery(url)) # <<>>)
    => /\ data # None
       /\ The(data).from = UrlKey(url)
       /\ \A pg \in pagination : pg.offset = (currentPage(url) - 1) * PAGE_SIZE

\* C10: after a back/forward navigation, once nothing is pending any more,
\* the displayed results are those of the URL's criteria.
C10_NavigationShowsUrlCriteria ==
    (/\ mounted /\ navigated
     /\ ~needsRender /\ inflight = {}
     /\ Trim(appliedSearchQuery(url)) # <<>>)
    => (data # None /\ The(data).from = UrlKey(url))

\* the request the last call of search_jobs was made with
LastSearchParams ==
    toSearchJobsRpcParams(result.filters,
                          [page |-> Some(result.page), pageSize |-> Some(result.pageSize)])

\* C12: when the pages 1, 2, ... of one criteria have been fetched from an
\* unchanged table up to the last one, their concatenation holds every
\* selected job exactly once, in descending order of creation time.
C12_PagesPartitionMatches ==
    (/\ result.op = "search"
     /\ result.first = 1
     /\ result.page * result.pageSize >= Cardinality(Selected(LastSearchParams)))
    => /\ \A id \in Selected(LastSearchParams) :
             Cardinality({i \in DOMAIN result.seen : result.seen[i] = id}) = 1
       /\ Len(result.seen) = Cardinality(Selected(LastSearchParams))
       /\ \A i, j \in DOMAIN result.seen :
             i < j => jobsTable[result.seen[i]].created_at
                         >= jobsTable[result.seen[j]].created_at

\* C13: pagination.total of every page returned, a page beyond the last one
\* included, is the number of jobs the criteria select.
C13_TotalIsFullCount ==
    result.op = "search"
    => result.response.pagination.total = Cardinality(Selected(LastSearchParams))

C16_SearchVectorCurrent ==
    \A id \in DOMAIN jobsTable :
        jobsTable[id].search_vector = SearchDocument(jobsTable[id])

\* the matching rule, on the criteria: OR within a filter, AND across filters
Selects(values, x) ==
    values = None \/ Len(The(values)) = 0 \/ x \in {The(values)[i] : i \in DOMAIN The(values)}

MatchesCriteria(j, f) ==
    /\ j.is_active
    /\ j.language = OrElse(f.language, ENGLISH)
    /\ Matches(j.search_vector, Lexemes(OrElse(f.language, ENGLISH), The(f.query)))
    /\ Selects(f.experienceLevel, j.experience_level)
    /\ Selects(f.company, j.company)
    /\ \A preset \in f.datePreset :
          /\ datePresetToRange(preset).dateFrom <= j.created_at
          /\ j.created_at <= datePresetToRange(preset).dateTo

FacetCount(c, f) ==
    Cardinality({id \in DOMAIN jobsTable :
                    /\ MatchesCriteria(jobsTable[id], [f EXCEPT !.company = None])
                    /\ jobsTable[id].company = c
                    /\ companies[c]})

NormalizedCriteria(f, pg) ==
    [query           |-> Trim(The(f.query)),
     experienceLevel |-> IF f.experienceLevel # None /\ Len(The(f.experienceLevel)) > 0
                         THEN f.experienceLevel ELSE None,
     language        |-> OrElse(f.language, ENGLISH),
     datePreset      |-> OrElse(f.datePreset, ANY),
     page            |-> OrElse(pg.page, 1),
     pageSize        |-> OrElse(pg.pageSize, 20)]

\* C11: two submissions whose criteria are equal after normalization are
\* given the same criteria key.
C11_EqualCriteriaSameKey ==
    (/\ fn.op = "key"
     /\ NormalizedCriteria(fn.a, fn.pga) = NormalizedCriteria(fn.b, fn.pgb))
    => fn.keyA = fn.keyB

\* C14: every page transformSearchResponse or createEmptySearchResponse builds
\* has hasMore = (offset + jobs.length < total), offset = (page - 1) * pageSize
\* and limit = pageSize.
C14_HasMoreLaw ==
    fn.op = "page"
    => /\ fn.out.pagination.hasMore
             = (fn.out.pagination.offset + Len(fn.out.jobs) < fn.out.pagination.total)
       /\ fn.out.pagination.offset = (fn.page - 1) * fn.pageSize
       /\ fn.out.pagination.limit = fn.pageSize

\* a second page with rows, fewer than the total
C14_Witness ==
    /\ fn.op = "page"
    /\ fn.page = 2
    /\ Len(fn.out.jobs) > 0
    /\ fn.out.pagination.hasMore

\* the set of the values selected for a multi-select key
Selection(f, key) == {OrElse(f[key], <<>>)[i] : i \in DOMAIN OrElse(f[key], <<>>)}

\* C19: on every filter state decoded from a URL and toggled since, toggle
\* adds an absent value and removes a present one, and two toggles of one
\* value give back the original set of selected values.
C19_ToggleInvolution ==
    [][\A key \in MultiSelectKeys : \A value \in {SENIOR, ENTRY} :
          ApplyToggle(key, value)
          => /\ value \notin Selection(fn.filters, key)
                   => Selection(fn'.filters, key)
                         = Selection(fn.filters, key) \cup {value}
             /\ value \in Selection(fn.filters, key)
                   => Selection(fn'.filters, key)
                         = Selection(fn.filters, key) \ {value}
             /\ Selection(ToggledFilters(fn'.filters, key, value), key)
                   = Selection(fn.filters, key)]_vars

\* normalize: empty arrays and default-valued single-selects are dropped
Normalize(x) ==
    [query           |-> x.query,
     experienceLevel |-> IF x.experienceLevel # None /\ Len(The(x.experienceLevel)) > 0
                         THEN x.experienceLevel ELSE None,
     language        |-> IF x.language = Some(ENGLISH) THEN None ELSE x.language,
     datePreset      |-> IF x.datePreset = Some(ANY) THEN None ELSE x.datePreset]

\* C20: decoding the query string that encodes criteria x and a page gives
\* normalize(x) and the page.
C20_CodecRoundTrip ==
    fn.op = "codec"
    => (fn.filters = Normalize(fn.x) /\ fn.decodedPage = fn.page)


\* C21: the encoded query string has lang only for a language other than
\* 'english', date only for a date preset other than 'any', p only for a
\* page other than 1, exp only for a non-empty selection (its comma-joined
\* values) and q for the query.
C21_EncoderEmitsNonDefaults ==
    fn.op = "codec"
    => /\ (fn.url.lang # None) <=> (fn.x.language \notin {None, Some(ENGLISH)})
       /\ fn.url.lang # None => fn.url.lang = fn.x.language
       /\ (fn.url.date # None) <=> (fn.x.datePreset \notin {None, Some(ANY)})
       /\ fn.url.date # None => fn.url.date = fn.x.datePreset
       /\ (fn.url.p # None) <=> (fn.page # 1)
       /\ fn.url.p # None => fn.url.p = Some(PageToString(fn.page))
       /\ (fn.url.exp # None)
             <=> (fn.x.experienceLevel \notin {None, Some(<<>>)})
       /\ fn.url.exp # None => fn.url.exp = Some(Join(The(fn.x.experienceLevel)))
       /\ fn.url.q = fn.x.query

\* C22: a value of the URL that is outside its vocabulary, or an empty list
\* element, is neither in the decoded filter state nor in the search request.
C22_UnknownValuesIgnored ==
    fn.op = "decode"
    => /\ Selection(fn.decoded, "experienceLevel") \subseteq ExperienceLevels
       /\ fn.decoded.language \subseteq Languages
       /\ fn.decoded.datePreset \subseteq DatePresets
       /\ Selection(fn.filters, "experienceLevel") \subseteq ExperienceLevels
       /\ fn.filters.language \subseteq Languages
       /\ fn.filters.datePreset \subseteq DatePresets
       /\ \A a \in fn.search.p_experience_level :
             \A i \in DOMAIN a : a[i] \in ExperienceLevels
       /\ fn.search.p_language \subseteq Languages

\* C23: criteria with date preset 'any' give a search request and a facet
\* request without date range, the requests of the same criteria without date
\* preset, and datePresetToRange('any') is null.
C23_AnyPresetCarriesNoDates ==
    (fn.op = "rpc" /\ fn.x.datePreset = Some(ANY))
    => /\ fn.range = None
       /\ fn.search.p_date_from = None /\ fn.search.p_date_to = None
       /\ fn.facet.p_date_from = None /\ fn.facet.p_date_to = None
       /\ fn.search = toSearchJobsRpcParams([fn.x EXCEPT !.datePreset = None], fn.pg)
       /\ fn.facet = toGetCompaniesRpcParams([fn.x EXCEPT !.datePreset = None])

\* C24: when the repository reports an error for page p and size s, the
\* service returns that error with the empty page: no jobs, total 0, no more
\* rows, limit s and offset (p - 1) * s.
C24_ErrorGivesEmptyPage ==
    (fn.op = "service" /\ fn.answer \in RepositoryErrors)
    => LET p == OrElse(fn.pg.page, 1)
           s == OrElse(fn.pg.pageSize, DEFAULT_PAGE_SIZE)
       IN /\ fn.out.error = Some(fn.answer)
          /\ fn.out.response.jobs = <<>>
          /\ fn.out.response.pagination
                = [total |-> 0, limit |-> s, offset |-> (p - 1) * s,
                   hasMore |-> FALSE]

\* a failed search for the second page of size PAGE_SIZE
C24_Witness ==
    /\ fn.op = "service"
    /\ fn.answer = "QUERY_ERROR"
    /\ fn.pg = [page |-> Some(2), pageSize |-> Some(PAGE_SIZE)]
    /\ fn.out.response.pagination.offset = PAGE_SIZE

\* C25: a string that is no date is formatted as 'unknown'.
C25_UnparseableIsUnknown ==
    (fn.op = "date" /\ ~fn.dateString.valid) => fn.out = <<"unknown">>

\* the label the breakpoints give to an elapsed time in seconds
BreakpointLabel(elapsed) ==
    LET minutes == elapsed \div SECONDS_PER_MINUTE
        hours == elapsed \div SECONDS_PER_HOUR
        days == elapsed \div SECONDS_PER_DAY
    IN CASE elapsed < 0 -> <<"just", " ", "now">>
         [] elapsed >= 0 /\ days = 0 /\ minutes <= 1 -> Ago(<<"1">>, "minute")
         [] days = 0 /\ minutes \in 2..59 -> Ago(PageToString(minutes), "minutes")
         [] days = 0 /\ minutes >= 60 /\ hours = 1 -> Ago(<<"1">>, "hour")
         [] days = 0 /\ hours >= 2 -> Ago(PageToString(hours), "hours")
         [] days = 1 -> Ago(<<"1">>, "day")
         [] days \in 2..6 -> Ago(PageToString(days), "days")
         [] days \in 7..13 -> Ago(<<"1">>, "week")
         [] days \in 14..29 -> Ago(PageToString(days \div 7), "weeks")
         [] days \in 30..59 -> Ago(<<"1">>, "month")
         [] days >= 60 -> Ago(PageToString(days \div 30), "months")

\* C26: a timestamp is labelled by the breakpoints of its elapsed time:
\* 'just now' when negative, minutes and hours under a day, then days, weeks
\* from 7 days and months from 30 days; 90 seconds are '1 minute ago', 25
\* hours '1 day ago' and 10 days '1 week ago'.
C26_LabelsFollowBreakpoints ==
    (fn.op = "date" /\ fn.dateString.valid)
    => LET elapsed == FormatNow - fn.dateString.time
       IN /\ fn.out = BreakpointLabel(elapsed)
          /\ elapsed = 90 => fn.out = <<"1", " ", "minute", " ", "ago">>
          /\ elapsed = 25 * SECONDS_PER_HOUR
                => fn.out = <<"1", " ", "day", " ", "ago">>
          /\ elapsed = 10 * SECONDS_PER_DAY
                => fn.out = <<"1", " ", "week", " ", "ago">>

\* a timestamp 21 days old is labelled '3 weeks ago'
C26_Witness ==
    /\ fn.op = "date"
    /\ fn.dateString.valid
    /\ FormatNow - fn.dateString.time = 21 * SECONDS_PER_DAY
    /\ fn.out = <<"3", " ", "weeks", " ", "ago">>

\* C27: the hook's current page and urlParamsToPage are the same integer, at
\* least 1, for every URL, and 1 when p is missing, not a number, zero or
\* negative.
C27_PageAtLeastOne ==
    fn.op = "pageOf"
    => /\ fn.current = fn.parsed
       /\ fn.current >= 1
       /\ (\/ fn.url.p = None
           \/ ParseInt(The(fn.url.p)) = None
           \/ The(ParseInt(The(fn.url.p))) <= 0) => fn.current = 1

\* C28: a page change requests exactly the criteria of the URL it leaves
\* behind, whatever filter mutations preceded it: the request's key is the
\* key of the URL, and the filter state is the one the URL decodes to.
C28_PageChangeKeepsUrlCriteria ==
    [][\A newPage \in Pages :
          (handlePageChange(newPage) /\ Trim(appliedSearchQuery(url)) # <<>>)
          => /\ LatestKey' = UrlKey(url')
             /\ filters' = FiltersFromUrl(url')]_vars

\* C29: once every load of the company options has settled and the most
\* recently started one has delivered its list, that list is the one shown,
\* in whatever order the loads completed.
C29_LatestLoadShown ==
    (/\ options.requests # <<>>
     /\ \A i \in DOMAIN options.outcome : options.outcome[i] # "pending"
     /\ options.outcome[Len(options.outcome)] = "data")
    => /\ options.companies.by = Len(options.requests)
       /\ options.companies.list = options.requests[Len(options.requests)]

\* the ids of the jobs of the current page
PageIds == {selection.apiJobs[i].id : i \in DOMAIN selection.apiJobs}

\* C30: the exposed selected id is null exactly when the page has no jobs;
\* otherwise it is the stored selection when a job of the page has it and the
\* id of the first job when not, and the selected job is the job of the page
\* with that id.
C30_SelectionInPage ==
    LET exposed == effectiveSelectedJobId(selection)
    IN /\ (exposed = None) <=> (selection.apiJobs = <<>>)
       /\ exposed \subseteq PageIds
       /\ selection.apiJobs # <<>>
             => exposed = IF selection.selectedJobId \subseteq PageIds
                             /\ selection.selectedJobId # None
                          THEN selection.selectedJobId
                          ELSE Some(selection.apiJobs[1].id)
       /\ (selectedJob(selection) = None) <=> (exposed = None)
       /\ \A job \in selectedJob(selection) :
             /\ Some(job.id) = exposed
             /\ \E i \in DOMAIN selection.apiJobs : selection.apiJobs[i] = job

\* a job was selected and the page was replaced by one without it
C30_Witness ==
    /\ selection.selectedJobId = Some("j2")
    /\ selection.apiJobs = <<[id |-> "j1"], [id |-> "j3"]>>
    /\ effectiveSelectedJobId(selection) = Some("j1")

====
